---- MODULE Spec2Model ----
(***************************************************************************)
(* convertComic.py: the batch driver (__main__), the per-archive pipeline  *)
(* convert_comic_book, the three image transcoders and the thread pool     *)
(* that runs the webp transcoder.                                          *)
(*                                                                         *)
(* Strings are sequences of tokens: "/" and "." are tokens of their own    *)
(* and every other token is a name that holds neither, so that             *)
(* str.replace, split, basename and splitext act on token boundaries.      *)
(***************************************************************************)
EXTENDS Integers, Sequences, FiniteSets, TLC

VARIABLES args, tree, inputs, pc, files, idx, outDirs, outputs, scratch, arch,
          ws, wsDirs, todo, tasks, waitIdx, last

vars == <<args, tree, inputs, pc, files, idx, outDirs, outputs, scratch, arch,
          ws, wsDirs, todo, tasks, waitIdx, last>>

(* ------------------------------ bounds --------------------------------- *)

\* largest encoded size of a file, in abstract size units
MaxSize == 3

\* largest number of page images in one archive
MaxImages == 2

(* ------------------------- strings of tokens --------------------------- *)

SetMax(S) == CHOOSE x \in S : \A y \in S : y <= x

\* str.rfind of a one-token needle, 0 when absent
LastIndexOf(s, tok) == SetMax({0} \cup {i \in 1..Len(s) : s[i] = tok})

StartsWithAt(s, p, i) ==
    /\ i + Len(p) - 1 <= Len(s)
    /\ SubSeq(s, i, i + Len(p) - 1) = p

RECURSIVE ReplaceFrom(_, _, _, _)
ReplaceFrom(s, old, new, i) ==
    IF i > Len(s) THEN <<>>
    ELSE IF StartsWithAt(s, old, i)
         THEN new \o ReplaceFrom(s, old, new, i + Len(old))
         ELSE <<s[i]>> \o ReplaceFrom(s, old, new, i + 1)

\* str.replace(old, new): every non-overlapping occurrence, left to right
StrReplace(s, old, new) == ReplaceFrom(s, old, new, 1)

\* path.split('.')[-1]
LastDotPart(s) == SubSeq(s, LastIndexOf(s, ".") + 1, Len(s))

\* os.path.basename
Basename(p) == SubSeq(p, LastIndexOf(p, "/") + 1, Len(p))

\* os.path.splitext(name)[0]: the last dot splits unless only dots precede it
SplitextRoot(name) ==
    LET d == LastIndexOf(name, ".")
    IN  IF d > 1 /\ \E j \in 1..(d - 1) : name[j] # "."
        THEN SubSeq(name, 1, d - 1)
        ELSE name

\* path.split('/'), pop(), '/'.join(...)
DropLastComponent(p) ==
    LET s == LastIndexOf(p, "/")
    IN  IF s = 0 THEN <<>> ELSE SubSeq(p, 1, s - 1)

\* os.path.join(a, b) for a relative b
PathJoin(a, b) ==
    IF b = <<>> THEN a
    ELSE IF a = <<>> THEN b
    ELSE IF a[Len(a)] = "/" THEN a \o b
    ELSE a \o <<"/">> \o b

\* the working directory of the process
Cwd == <<"/", "cwd">>

StripTrailingSep(p) ==
    IF Len(p) > 1 /\ p[Len(p)] = "/" THEN SubSeq(p, 1, Len(p) - 1) ELSE p

StripLeadingDot(p) ==
    IF Len(p) >= 2 /\ p[1] = "." /\ p[2] = "/" THEN SubSeq(p, 3, Len(p)) ELSE p

\* os.path.abspath, for paths without "..", "//" or inner "."
Abspath(p) ==
    IF p[1] = "/" THEN StripTrailingSep(p)
    ELSE PathJoin(Cwd, StripTrailingSep(StripLeadingDot(p)))

(* -------------------------- the command line --------------------------- *)

\* --input as typed: absolute, absolute with a trailing separator,
\* relative, relative with a leading "./"
InputForms ==
    { <<"/", "cwd", "/", "in">>, <<"/", "cwd", "/", "in", "/">>,
      <<"in">>, <<".", "/", "in">> }

\* --output, an existing directory
OutputRoot == <<"/", "out">>

\* --output as typed: a directory of its own, the input root itself, a
\* directory inside the input root
OutputRoots ==
    { OutputRoot, <<"/", "cwd", "/", "in">>, <<"/", "cwd", "/", "in", "/", "A">> }

ImageTypes == {"webp", "png", "jpg", "original", "tiff"}

Extensions == {"cbz", "cbr", "cb7", "tar"}

(* ----------------------- the input directory tree ---------------------- *)

\* the files under the input root in os.walk order (top-down)
TreeFiles ==
    << [dir |-> <<>>,    name |-> <<"1", ".", "cbz">>],
       [dir |-> <<>>,    name |-> <<"notes", ".", "txt">>],
       [dir |-> <<"A">>, name |-> <<"2", ".", "cbr">>] >>

\* a directory and the directories above it, relative to the input root
AncestorDirs(d) ==
    {SubSeq(d, 1, k) : k \in {j \in 1..Len(d) : j = Len(d) \/ d[j + 1] = "/"}}

\* the directories under the input root that os.walk visits
DirsOfTree(t) == UNION {AncestorDirs(t[i].dir) : i \in DOMAIN t}

\* the directories under the input root, relative to it
TreeDirs == DirsOfTree(TreeFiles)

\* the absolute path of a file of the tree
InputPath(directory, e) == PathJoin(PathJoin(Abspath(directory), e.dir), e.name)

\* the files under the input root as they are before the run
InputArchives(directory, t) ==
    [p \in {InputPath(directory, t[i]) : i \in DOMAIN t} |-> [from |-> 0]]

\* the files a walked tree may hold, in os.walk order: plain and hidden files
\* at the root, in a directory, in a directory of a directory and in a hidden
\* directory
TreePool ==
    << [dir |-> <<>>,              name |-> <<"1", ".", "cbz">>],
       [dir |-> <<>>,              name |-> <<".", "h", ".", "cbz">>],
       [dir |-> <<"A">>,           name |-> <<"2", ".", "cbr">>],
       [dir |-> <<"A">>,           name |-> <<".", "k", ".", "rar">>],
       [dir |-> <<"A", "/", "B">>, name |-> <<"3", ".", "zip">>],
       [dir |-> <<".", "d">>,      name |-> <<"4", ".", "cbz">>] >>

\* every tree made of files of the pool
Trees ==
    {SelectSeq(TreePool, LAMBDA e : e \in S) :
        S \in SUBSET {TreePool[i] : i \in DOMAIN TreePool}}

ComicSuffixes == {"cbz", "cbr", "zip", "rar", "cb7", "7z"}

check_if_file_is_comic_book_file(file) ==
    /\ Len(file) >= 2
    /\ file[Len(file) - 1] = "."
    /\ file[Len(file)] \in ComicSuffixes
    /\ file[1] # "."

WalkedEntry(directory, e) == PathJoin(PathJoin(directory, e.dir), e.name)

\* a walk that never takes the `break`, whatever `recursive` is
parse_directory_without_break(directory, recursive) ==
    LET keep(e) == e.name[1] # "."
        kept == SelectSeq(tree, keep)
    IN  [i \in 1..Len(kept) |-> WalkedEntry(directory, kept[i])]

parse_directory_for_files(directory, recursive) ==
    LET keep(e) == /\ e.name[1] # "."
                   /\ (recursive \/ e.dir = <<>>)
        kept == SelectSeq(tree, keep)
    IN  [i \in 1..Len(kept) |-> WalkedEntry(directory, kept[i])]

copy_directory_structure(directory, output) ==
    {output} \cup {PathJoin(output, d) : d \in DirsOfTree(tree)}

\* the output directory lies inside the input directory: every directory
\* copy_directory_structure makes is one os.walk visits later
OutputInsideInput(directory, output) ==
    /\ Len(output) > Len(Abspath(directory)) + 1
    /\ StartsWithAt(output, Abspath(directory) \o <<"/">>, 1)

get_file_name_from_path(path) == SplitextRoot(Basename(path))

\* convert_comic_book, the output path when input_directory is given
OutputFilePath(input, output, convert_extension, input_directory) ==
    LET absdir     == Abspath(input_directory) \o <<"/">>
        input_path == StrReplace(input, absdir, <<"/">>)
        file_name  == get_file_name_from_path(input_path)
        dir_part   == DropLastComponent(input_path)
    IN  output \o dir_part \o <<"/">> \o file_name \o <<".">> \o <<convert_extension>>

(* ----------------------- the scratch workspace -------------------------- *)

\* the page files an archive may hold, in os.walk order (top-down), relative
\* to the workspace root; the temporary directory's own name holds no image
\* extension
PageOrder ==
    << <<"001", ".", "png">>, <<"001", ".", "jpg">>,
       <<"ch", "/", "002", ".", "gif">> >>

PageNames == {PageOrder[i] : i \in 1..Len(PageOrder)}

\* Image.format of a well-formed file with this extension, lower-cased
FormatOf(ext) == IF ext = "jpg" THEN "jpeg" ELSE ext

\* the size of every page as extracted
OrigSize == MaxSize - 1

NewFile(page, fmt, size) == [page |-> page, fmt |-> fmt, size |-> size]

EmptyFS == [p \in {} |-> NewFile(<<>>, "", 0)]

Extracted(S) == [p \in S |-> NewFile(p, FormatOf(p[Len(p)]), OrigSize)]

\* what a complete extraction may leave in the workspace
ArchiveContents ==
    {Extracted(S) : S \in {T \in SUBSET PageNames : 1 <= Cardinality(T) /\ Cardinality(T) <= MaxImages}}

\* what a failed extraction may leave: fewer pages than a whole archive
PartialContents ==
    {Extracted(S) : S \in {T \in SUBSET PageNames : Cardinality(T) < MaxImages}}

\* the directories of the workspace, relative to it (<<>> is its root)
DirsOf(fs) == {<<>>} \cup {DropLastComponent(p) : p \in DOMAIN fs}

WriteFile(fs, p, f) == [q \in DOMAIN fs \cup {p} |-> IF q = p THEN f ELSE fs[q]]

RemoveFile(fs, p) == [q \in DOMAIN fs \ {p} |-> fs[q]]

EndsWithExt(p, exts) ==
    Len(p) >= 2 /\ p[Len(p) - 1] = "." /\ p[Len(p)] \in exts

WebpSources == {"png", "jpg", "jpeg", "bmp", "gif"}
PngSources == {"jpg", "jpeg", "bmp", "gif", "webp"}
JpgSources == {"png", "bmp", "gif", "webp"}

\* the image paths a traversal visits: os.walk of the workspace, filtered
Qualifying(fs, exts, skipHidden) ==
    LET keep(p) == /\ p \in DOMAIN fs
                   /\ EndsWithExt(p, exts)
                   /\ (skipHidden => Basename(p)[1] # ".")
    IN  SelectSeq(PageOrder, keep)

(* ------------------------------ history -------------------------------- *)

Signatures == {"ZIP", "RAR", "7Z", "Unknown"}

\* what happened to one walked file: whether a signature was found, whether the
\* decompressor succeeded, whether the transcode and build steps were entered,
\* whether the build succeeded, the output path used, and the call's state
NoArch ==
    [sig |-> "none", extract |-> "none", transcoded |-> FALSE, built |-> FALSE,
     buildOK |-> FALSE, outPath |-> <<>>, call |-> "none"]

\* the last call of convert_image_to_png or convert_image_to_jpg: its argument,
\* the path it saves at, what it returned, the file as it was before the call,
\* the image's mode, and whether the environment made it fail (a file that
\* does not decode, an I/O error)
NoLast == [op |-> "none", path |-> <<>>, dst |-> <<>>, ok |-> FALSE,
           before |-> NewFile(<<>>, "", 0), mode |-> "none", env |-> FALSE]

(* ------------------------------- Init ---------------------------------- *)

Init ==
    /\ args \in [input : InputForms, output : OutputRoots, recursive : BOOLEAN,
                 convert_extension : Extensions,
                 convert_image_file_type : ImageTypes]
    /\ tree = TreeFiles
    /\ inputs = InputArchives(args.input, tree)
    /\ pc = "main"
    /\ files = <<>>
    /\ idx = 1
    /\ outDirs = {args.output}
    /\ outputs = {}
    /\ scratch = {}
    /\ arch = <<>>
    /\ ws = EmptyFS
    /\ wsDirs = {}
    /\ todo = <<>>
    /\ tasks = <<>>
    /\ waitIdx = 1
    /\ last = NoLast

(* ------------------------- __main__, directory mode -------------------- *)

Main ==
    /\ pc = "main"
    /\ ~OutputInsideInput(args.input, args.output)
    /\ files' = parse_directory_for_files(args.input, args.recursive)
    /\ outDirs' = outDirs \cup copy_directory_structure(args.input, args.output)
    /\ arch' = [i \in 1..Len(files') |-> NoArch]
    /\ idx' = 1
    /\ pc' = "loop"
    /\ UNCHANGED <<args, tree, inputs, outputs, scratch, ws, wsDirs, todo, tasks, waitIdx, last>>

\* copy_directory_structure never comes to an end: the walk keeps finding the
\* directory it has just made, until os.makedirs or os.walk raises and the
\* process ends with no archive converted
MainDiverges ==
    /\ pc = "main"
    /\ OutputInsideInput(args.input, args.output)
    /\ files' = parse_directory_for_files(args.input, args.recursive)
    /\ arch' = [i \in 1..Len(files') |-> NoArch]
    /\ pc' = "crashed"
    /\ UNCHANGED <<args, tree, inputs, idx, outDirs, outputs, scratch,
                   ws, wsDirs, todo, tasks, waitIdx, last>>

LoopSkip ==
    /\ pc = "loop"
    /\ idx <= Len(files)
    /\ ~check_if_file_is_comic_book_file(files[idx])
    /\ idx' = idx + 1
    /\ UNCHANGED <<args, tree, inputs, pc, files, outDirs, outputs, scratch, arch,
                   ws, wsDirs, todo, tasks, waitIdx, last>>

\* the call of convert_comic_book and its first statement, create_temp_directory
LoopConvert ==
    /\ pc = "loop"
    /\ idx <= Len(files)
    /\ check_if_file_is_comic_book_file(files[idx])
    /\ scratch' = scratch \cup {idx}
    /\ ws' = EmptyFS
    /\ wsDirs' = {<<>>}
    /\ arch' = [arch EXCEPT ![idx].call = "running"]
    /\ pc' = "detect"
    /\ UNCHANGED <<args, tree, inputs, files, idx, outDirs, outputs, todo, tasks, waitIdx, last>>

LoopEnd ==
    /\ pc = "loop"
    /\ idx > Len(files)
    /\ pc' = "done"
    /\ UNCHANGED <<args, tree, inputs, files, idx, outDirs, outputs, scratch, arch,
                   ws, wsDirs, todo, tasks, waitIdx, last>>

(* --------------------------- convert_comic_book ------------------------ *)

\* a `return False` that ends the batch
ReturnFalseEndsBatch(a) ==
    /\ arch' = [a EXCEPT ![idx].call = "false"]
    /\ pc' = "done"
    /\ idx' = idx + 1
    /\ ws' = EmptyFS
    /\ wsDirs' = {}
    /\ todo' = <<>>
    /\ tasks' = <<>>
    /\ last' = NoLast

\* `return False`: back to the loop of __main__ with the workspace as it is
ReturnFalse(a) ==
    /\ arch' = [a EXCEPT ![idx].call = "false"]
    /\ pc' = "loop"
    /\ idx' = idx + 1
    /\ ws' = EmptyFS
    /\ wsDirs' = {}
    /\ todo' = <<>>
    /\ tasks' = <<>>
    /\ last' = NoLast

\* determine_compression_type finds none of the three signatures
DetectUnknown ==
    /\ pc = "detect"
    /\ ReturnFalse([arch EXCEPT ![idx].sig = "Unknown"])
    /\ UNCHANGED <<args, tree, inputs, files, outDirs, outputs, scratch, waitIdx>>

\* determine_compression_type finds a signature and the decompress_*_file of
\* that family runs; its result (True, or False after a caught exception,
\* which leaves a part of the pages) is not looked at
Extract ==
    /\ pc = "detect"
    /\ \E sig \in Signatures \ {"Unknown"} : \E ok \in BOOLEAN :
         \E c \in IF ok THEN ArchiveContents ELSE PartialContents :
            /\ ws' = c
            /\ wsDirs' = DirsOf(c)
            /\ arch' = [arch EXCEPT ![idx].sig = "known",
                                    ![idx].extract = IF ok THEN "ok" ELSE "failed"]
    /\ pc' = "transcode"
    /\ UNCHANGED <<args, tree, inputs, files, idx, outDirs, outputs, scratch, todo, tasks, waitIdx, last>>

(* -------------------- the transcode step, dispatch ---------------------- *)

TranscodeWebp ==
    /\ pc = "transcode"
    /\ args.convert_image_file_type = "webp"
    /\ todo' = Qualifying(ws, WebpSources, TRUE)
    /\ tasks' = <<>>
    /\ arch' = [arch EXCEPT ![idx].transcoded = TRUE]
    /\ pc' = "webp_submit"
    /\ UNCHANGED <<args, tree, inputs, files, idx, outDirs, outputs, scratch, ws, wsDirs, waitIdx, last>>

TranscodePng ==
    /\ pc = "transcode"
    /\ args.convert_image_file_type = "png"
    /\ todo' = Qualifying(ws, PngSources, FALSE)
    /\ arch' = [arch EXCEPT ![idx].transcoded = TRUE]
    /\ pc' = "png_loop"
    /\ UNCHANGED <<args, tree, inputs, files, idx, outDirs, outputs, scratch, ws, wsDirs, tasks, waitIdx, last>>

TranscodeJpg ==
    /\ pc = "transcode"
    /\ args.convert_image_file_type = "jpg"
    /\ todo' = Qualifying(ws, JpgSources, FALSE)
    /\ arch' = [arch EXCEPT ![idx].transcoded = TRUE]
    /\ pc' = "jpg_loop"
    /\ UNCHANGED <<args, tree, inputs, files, idx, outDirs, outputs, scratch, ws, wsDirs, tasks, waitIdx, last>>

TranscodeOriginal ==
    /\ pc = "transcode"
    /\ args.convert_image_file_type = "original"
    /\ pc' = "build"
    /\ UNCHANGED <<args, tree, inputs, files, idx, outDirs, outputs, scratch, arch,
                   ws, wsDirs, todo, tasks, waitIdx, last>>

TranscodeUnsupported ==
    /\ pc = "transcode"
    /\ args.convert_image_file_type \notin {"webp", "png", "jpg", "original"}
    /\ ReturnFalse(arch)
    /\ UNCHANGED <<args, tree, inputs, files, outDirs, outputs, scratch, waitIdx>>

(* ------------- the thread pool and convert_image_to_webp --------------- *)

\* ThreadPoolExecutor(max_workers=4)
MaxWorkers == 4

\* a submitted call of convert_image_to_webp: its argument, where it stands,
\* size_of_original, size_of_webp (until the call is over), the size it
\* encoded, and the statement that raised when it failed
NewTask(p) ==
    [path |-> p, st |-> "queued", ok |-> FALSE, orig |-> 0, seen |-> 0, enc |-> 0,
     at |-> "none"]

\* image_path.replace(image_path.split('.')[-1], 'webp')
WebpPath(p) == StrReplace(p, LastDotPart(p), <<"webp">>)

Running == {t \in 1..Len(tasks) : tasks[t].st \in {"opened", "saved", "sized"}}

\* the except clause: print and return False
TaskFails(t, at) ==
    tasks' = [tasks EXCEPT ![t].st = "done", ![t].ok = FALSE, ![t].seen = 0,
                           ![t].enc = 0, ![t].at = at]

\* executor.submit for the next image of the walk
Submit ==
    /\ pc = "webp_submit"
    /\ todo # <<>>
    /\ tasks' = Append(tasks, NewTask(Head(todo)))
    /\ todo' = Tail(todo)
    /\ UNCHANGED <<args, tree, inputs, pc, files, idx, outDirs, outputs, scratch, arch,
                   ws, wsDirs, waitIdx, last>>

SubmitDone ==
    /\ pc = "webp_submit"
    /\ todo = <<>>
    /\ waitIdx' = 1
    /\ pc' = "webp_wait"
    /\ UNCHANGED <<args, tree, inputs, files, idx, outDirs, outputs, scratch, arch,
                   ws, wsDirs, todo, tasks, last>>

\* a worker takes the oldest queued task
CanStart(t) ==
    /\ t \in 1..Len(tasks)
    /\ tasks[t].st = "queued"
    /\ \A u \in 1..(t - 1) : tasks[u].st # "queued"
    /\ Cardinality(Running) < MaxWorkers

\* Image.open and os.path.getsize(image_path)
TaskOpen ==
    \E t \in 1..Len(tasks) :
       /\ CanStart(t)
       /\ tasks[t].path \in DOMAIN ws
       /\ tasks' = [tasks EXCEPT ![t].st = "opened",
                                 ![t].orig = ws[tasks[t].path].size]
       /\ UNCHANGED <<args, tree, inputs, pc, files, idx, outDirs, outputs, scratch, arch,
                      ws, wsDirs, todo, waitIdx, last>>

\* the file does not open as an image, or resizing it fails
TaskOpenFail ==
    \E t \in 1..Len(tasks) :
       /\ CanStart(t)
       /\ TaskFails(t, "open")
       /\ UNCHANGED <<args, tree, inputs, pc, files, idx, outDirs, outputs, scratch, arch,
                      ws, wsDirs, todo, waitIdx, last>>

\* image.save(webp_path, 'webp', ...): the file is created or overwritten
TaskSave ==
    \E t \in 1..Len(tasks) : \E s \in 1..MaxSize :
       /\ tasks[t].st = "opened"
       /\ DropLastComponent(WebpPath(tasks[t].path)) \in wsDirs
       /\ ws' = WriteFile(ws, WebpPath(tasks[t].path), NewFile(tasks[t].path, "webp", s))
       /\ tasks' = [tasks EXCEPT ![t].st = "saved", ![t].enc = s]
       /\ UNCHANGED <<args, tree, inputs, pc, files, idx, outDirs, outputs, scratch, arch,
                      wsDirs, todo, waitIdx, last>>

\* the encoder fails, or the directory of webp_path does not exist
TaskSaveFail ==
    \E t \in 1..Len(tasks) :
       /\ tasks[t].st = "opened"
       /\ TaskFails(t, "save")
       /\ UNCHANGED <<args, tree, inputs, pc, files, idx, outDirs, outputs, scratch, arch,
                      ws, wsDirs, todo, waitIdx, last>>

\* os.path.getsize(webp_path)
TaskSize ==
    \E t \in 1..Len(tasks) :
       /\ tasks[t].st = "saved"
       /\ WebpPath(tasks[t].path) \in DOMAIN ws
       /\ tasks' = [tasks EXCEPT ![t].st = "sized",
                                 ![t].seen = ws[WebpPath(tasks[t].path)].size]
       /\ UNCHANGED <<args, tree, inputs, pc, files, idx, outDirs, outputs, scratch, arch,
                      ws, wsDirs, todo, waitIdx, last>>

\* webp_path is gone, or cannot be read
TaskSizeFail ==
    \E t \in 1..Len(tasks) :
       /\ tasks[t].st = "saved"
       /\ TaskFails(t, "size")
       /\ UNCHANGED <<args, tree, inputs, pc, files, idx, outDirs, outputs, scratch, arch,
                      ws, wsDirs, todo, waitIdx, last>>

\* the file the size comparison deletes
RemoveTarget(t) ==
    IF tasks[t].seen < tasks[t].orig THEN tasks[t].path ELSE WebpPath(tasks[t].path)

\* os.remove(image_path) or os.remove(webp_path)
TaskRemove ==
    \E t \in 1..Len(tasks) :
       /\ tasks[t].st = "sized"
       /\ RemoveTarget(t) \in DOMAIN ws
       /\ ws' = RemoveFile(ws, RemoveTarget(t))
       /\ tasks' = [tasks EXCEPT ![t].st = "done", ![t].ok = TRUE, ![t].seen = 0]
       /\ UNCHANGED <<args, tree, inputs, pc, files, idx, outDirs, outputs, scratch, arch,
                      wsDirs, todo, waitIdx, last>>

\* the file to delete is gone, or cannot be deleted
TaskRemoveFail ==
    \E t \in 1..Len(tasks) :
       /\ tasks[t].st = "sized"
       /\ TaskFails(t, "remove")
       /\ UNCHANGED <<args, tree, inputs, pc, files, idx, outDirs, outputs, scratch, arch,
                      ws, wsDirs, todo, waitIdx, last>>

\* a future.result() that returns as soon as the task has started
FutureHasStarted(t) == tasks[t].st # "queued"

\* future.result() returns once the task is over
FutureIsDone(t) == tasks[t].st = "done"

FutureResult ==
    /\ pc = "webp_wait"
    /\ waitIdx <= Len(tasks)
    /\ FutureIsDone(waitIdx)
    /\ waitIdx' = waitIdx + 1
    /\ UNCHANGED <<args, tree, inputs, pc, files, idx, outDirs, outputs, scratch, arch,
                   ws, wsDirs, todo, tasks, last>>

\* traverse_directory_for_image_webp_conversion returns
TraverseWebpReturn ==
    /\ pc = "webp_wait"
    /\ waitIdx > Len(tasks)
    /\ pc' = "build"
    /\ UNCHANGED <<args, tree, inputs, files, idx, outDirs, outputs, scratch, arch,
                   ws, wsDirs, todo, tasks, waitIdx, last>>

(* ------------------------- convert_image_to_png ------------------------ *)

Record(op, p, dst, ok, mode, env) ==
    [op |-> op, path |-> p, dst |-> dst, ok |-> ok, before |-> ws[p],
     mode |-> mode, env |-> env]

\* image_path.replace(image.format.lower(), 'png')
PngPath(p, fmt) == StrReplace(p, <<fmt>>, <<"png">>)

\* the image opens and is saved at png_path; returns True
PngConvert ==
    /\ pc = "png_loop"
    /\ todo # <<>>
    /\ LET p == Head(todo)
           dst == PngPath(p, ws[p].fmt)
       IN  /\ DropLastComponent(dst) \in wsDirs
           /\ \E s \in 1..MaxSize :
                 ws' = WriteFile(ws, dst, NewFile(ws[p].page, "png", s))
           /\ last' = Record("png", p, dst, TRUE, "none", FALSE)
    /\ todo' = Tail(todo)
    /\ UNCHANGED <<args, tree, inputs, pc, files, idx, outDirs, outputs, scratch, arch,
                   wsDirs, tasks, waitIdx>>

\* Image.open or image.save raises; returns False
PngFail ==
    /\ pc = "png_loop"
    /\ todo # <<>>
    /\ last' = Record("png", Head(todo), PngPath(Head(todo), ws[Head(todo)].fmt),
                    FALSE, "none", TRUE)
    /\ todo' = Tail(todo)
    /\ UNCHANGED <<args, tree, inputs, pc, files, idx, outDirs, outputs, scratch, arch,
                   ws, wsDirs, tasks, waitIdx>>

TraversePngReturn ==
    /\ pc = "png_loop"
    /\ todo = <<>>
    /\ pc' = "build"
    /\ UNCHANGED <<args, tree, inputs, files, idx, outDirs, outputs, scratch, arch,
                   ws, wsDirs, todo, tasks, waitIdx, last>>

(* ------------------------- convert_image_to_jpg ------------------------ *)

\* Image.mode of a page with this extension: true colour, true colour with
\* alpha, palette
ModesOf(ext) ==
    IF ext \in {"png", "webp"} THEN {"RGB", "RGBA", "P"} ELSE {"RGB", "P"}

\* the mode the image is saved in: converted unless RGB or RGBA
SavedMode(mode) == IF mode \notin {"RGB", "RGBA"} THEN "RGB" ELSE mode

\* the JPEG encoder writes no alpha channel: saving an RGBA image raises
JpegWritable(mode) == mode # "RGBA"

\* image_path.replace(image_path.split('.')[-1], 'jpeg')
JpgPath(p) == StrReplace(p, LastDotPart(p), <<"jpeg">>)

\* the image is saved at jpg_path and the source removed; returns True
JpgConvert ==
    /\ pc = "jpg_loop"
    /\ todo # <<>>
    /\ LET p == Head(todo)
           dst == JpgPath(p)
       IN  \E mode \in ModesOf(p[Len(p)]) : \E s \in 1..MaxSize :
              /\ JpegWritable(SavedMode(mode))
              /\ DropLastComponent(dst) \in wsDirs
              /\ ws' = RemoveFile(WriteFile(ws, dst, NewFile(ws[p].page, "jpeg", s)), p)
              /\ last' = Record("jpg", p, dst, TRUE, mode, FALSE)
    /\ todo' = Tail(todo)
    /\ UNCHANGED <<args, tree, inputs, pc, files, idx, outDirs, outputs, scratch, arch,
                   wsDirs, tasks, waitIdx>>

\* image.save raises for the image's mode; returns False
JpgSaveRaises ==
    /\ pc = "jpg_loop"
    /\ todo # <<>>
    /\ LET p == Head(todo)
       IN  \E mode \in ModesOf(p[Len(p)]) :
              /\ ~JpegWritable(SavedMode(mode))
              /\ last' = Record("jpg", p, JpgPath(p), FALSE, mode, FALSE)
    /\ todo' = Tail(todo)
    /\ UNCHANGED <<args, tree, inputs, pc, files, idx, outDirs, outputs, scratch, arch,
                   ws, wsDirs, tasks, waitIdx>>

\* Image.open raises, or image.save fails on I/O; returns False
JpgFail ==
    /\ pc = "jpg_loop"
    /\ todo # <<>>
    /\ last' = Record("jpg", Head(todo), JpgPath(Head(todo)), FALSE, "none", TRUE)
    /\ todo' = Tail(todo)
    /\ UNCHANGED <<args, tree, inputs, pc, files, idx, outDirs, outputs, scratch, arch,
                   ws, wsDirs, tasks, waitIdx>>

\* the image is saved but os.remove(image_path) raises; returns False
JpgRemoveFail ==
    /\ pc = "jpg_loop"
    /\ todo # <<>>
    /\ LET p == Head(todo)
           dst == JpgPath(p)
       IN  \E mode \in ModesOf(p[Len(p)]) : \E s \in 1..MaxSize :
              /\ JpegWritable(SavedMode(mode))
              /\ DropLastComponent(dst) \in wsDirs
              /\ ws' = WriteFile(ws, dst, NewFile(ws[p].page, "jpeg", s))
              /\ last' = Record("jpg", p, dst, FALSE, mode, TRUE)
    /\ todo' = Tail(todo)
    /\ UNCHANGED <<args, tree, inputs, pc, files, idx, outDirs, outputs, scratch, arch,
                   wsDirs, tasks, waitIdx>>

TraverseJpgReturn ==
    /\ pc = "jpg_loop"
    /\ todo = <<>>
    /\ pc' = "build"
    /\ UNCHANGED <<args, tree, inputs, files, idx, outDirs, outputs, scratch, arch,
                   ws, wsDirs, todo, tasks, waitIdx, last>>

(* ------------------------- build and clean up -------------------------- *)

SupportedExtensions == {"cbz", "cbr", "cb7"}

\* compress_directory_to_comic_book_file_*: opening the output file for
\* writing needs its directory; any other failure is the environment's
Build ==
    /\ pc = "build"
    /\ args.convert_extension \in SupportedExtensions
    /\ LET out == OutputFilePath(files[idx], args.output, args.convert_extension, args.input)
       IN  \E io \in BOOLEAN :
              LET ok == io /\ DropLastComponent(out) \in outDirs
              IN  /\ outputs' = IF ok
                                THEN {o \in outputs : o.path # out}
                                        \cup {[path |-> out, src |-> idx]}
                                ELSE outputs
                  /\ inputs' = IF ok /\ out \in DOMAIN inputs
                               THEN [inputs EXCEPT ![out] = [from |-> idx]]
                               ELSE inputs
                  /\ arch' = [arch EXCEPT ![idx].built = TRUE, ![idx].buildOK = ok,
                                          ![idx].outPath = out]
    /\ pc' = "cleanup"
    /\ UNCHANGED <<args, tree, files, idx, outDirs, scratch, ws, wsDirs, todo, tasks, waitIdx, last>>

BuildUnsupported ==
    /\ pc = "build"
    /\ args.convert_extension \notin SupportedExtensions
    /\ ReturnFalse(arch)
    /\ UNCHANGED <<args, tree, inputs, files, outDirs, outputs, scratch, waitIdx>>

\* delete_directory(temp_work_dir), and the call returns
Cleanup ==
    /\ pc = "cleanup"
    /\ scratch' = scratch \ {idx}
    /\ arch' = [arch EXCEPT ![idx].call = "returned"]
    /\ ws' = EmptyFS
    /\ wsDirs' = {}
    /\ todo' = <<>>
    /\ tasks' = <<>>
    /\ last' = NoLast
    /\ idx' = idx + 1
    /\ pc' = "loop"
    /\ UNCHANGED <<args, tree, inputs, files, outDirs, outputs, waitIdx>>

(* ------------------------------ the program ---------------------------- *)

Next ==
    \/ Main \/ MainDiverges \/ LoopSkip \/ LoopConvert \/ LoopEnd
    \/ DetectUnknown \/ Extract
    \/ TranscodeWebp \/ TranscodePng \/ TranscodeJpg \/ TranscodeOriginal
    \/ TranscodeUnsupported
    \/ Submit \/ SubmitDone
    \/ TaskOpen \/ TaskOpenFail \/ TaskSave \/ TaskSaveFail
    \/ TaskSize \/ TaskSizeFail \/ TaskRemove \/ TaskRemoveFail
    \/ FutureResult \/ TraverseWebpReturn
    \/ PngConvert \/ PngFail \/ TraversePngReturn
    \/ JpgConvert \/ JpgSaveRaises \/ JpgFail \/ JpgRemoveFail \/ TraverseJpgReturn
    \/ Build \/ BuildUnsupported \/ Cleanup

Spec == Init /\ [][Next]_vars

(* ------------------------------- claims -------------------------------- *)

Returned(i) == arch[i].call \in {"false", "returned"}

HasOutput(i) == \E o \in outputs : o.src = i

\* C1: when a call of convert_comic_book has returned, whatever its outcome,
\* the scratch workspace made for it no longer exists; so no scratch
\* directory is left under the output root after the batch.
C1_ScratchRemovedOnReturn ==
    \A i \in DOMAIN arch : Returned(i) => i \notin scratch

\* an archive whose own steps all succeed
ValidArchive(i) ==
    /\ arch[i].sig = "known"
    /\ arch[i].extract = "ok"
    /\ arch[i].buildOK

\* C2: at the end of a directory-mode batch every walked comic archive has
\* gone through convert_comic_book, whatever happened to the archives before
\* or after it, and every archive whose own steps succeeded has its output
\* archive.
C2_FailureNeverStopsBatch ==
    pc = "done" =>
       \A i \in DOMAIN files :
          check_if_file_is_comic_book_file(files[i]) =>
             /\ Returned(i)
             /\ ValidArchive(i) => HasOutput(i)

\* a finished batch in which an archive failed on its signature and a later
\* one, walked after it, was converted
C2_Witness ==
    /\ pc = "done"
    /\ \E i, j \in DOMAIN files :
          /\ i < j
          /\ arch[i].sig = "Unknown"
          /\ arch[i].call = "false"
          /\ ValidArchive(j)
          /\ HasOutput(j)

\* C3: on the webp path the build step (and everything after it) runs only
\* when every transcode task submitted for the archive is over, successfully
\* or not.
C3_BuildAfterAllTasks ==
    pc \in {"build", "cleanup"} =>
       \A t \in 1..Len(tasks) : tasks[t].st = "done"

\* the build step is reached with two tasks submitted, one that converted its
\* image and one that failed
C3_Witness ==
    /\ pc = "build"
    /\ args.convert_image_file_type = "webp"
    /\ Len(tasks) = 2
    /\ \E t, u \in 1..Len(tasks) : tasks[t].ok /\ ~tasks[u].ok

\* C4: when the decompressor fails, the conversion of that archive ends: no
\* transcode step, no build step and no output archive for it, and its
\* workspace is deleted once the call has returned.
C4_ExtractFailureEndsConversion ==
    \A i \in DOMAIN arch :
       arch[i].extract = "failed" =>
          /\ ~arch[i].transcoded
          /\ ~arch[i].built
          /\ ~HasOutput(i)
          /\ Returned(i) => i \notin scratch

\* the paths a call of convert_image_to_webp reads, writes or deletes
TaskPaths(t) == {tasks[t].path, WebpPath(tasks[t].path)}

\* C5: any two webp transcode tasks of one archive touch disjoint sets of
\* files.
C5_TasksTouchDisjointFiles ==
    \A t, u \in 1..Len(tasks) : t # u => TaskPaths(t) \cap TaskPaths(u) = {}

\* the path of an image with its extension replaced
Sibling(p, ext) == SubSeq(p, 1, Len(p) - 1) \o <<ext>>

\* C6: after convert_image_to_webp has run on an image without raising,
\* exactly one of the original and its .webp sibling exists: the webp when
\* the size it was encoded to is strictly smaller than the original's size,
\* the original otherwise.
C6_WebpKeepsTheSmaller ==
    \A t \in 1..Len(tasks) :
       (tasks[t].st = "done" /\ tasks[t].ok) =>
          LET p == tasks[t].path
              w == Sibling(p, "webp")
          IN  IF tasks[t].enc < tasks[t].orig
              THEN w \in DOMAIN ws /\ p \notin DOMAIN ws
              ELSE p \in DOMAIN ws /\ w \notin DOMAIN ws

\* C7: an image whose transcoding failed, at whatever statement, is still
\* there as it was extracted, and no converted file for it is left beside
\* it.
C7_FailedTranscodeLeavesOnlyOriginal ==
    /\ \A t \in 1..Len(tasks) :
          (tasks[t].st = "done" /\ ~tasks[t].ok) =>
             /\ tasks[t].path \in DOMAIN ws
             /\ ws[tasks[t].path] = Extracted({tasks[t].path})[tasks[t].path]
             /\ Sibling(tasks[t].path, "webp") \notin DOMAIN ws
    /\ (last.op \in {"png", "jpg"} /\ ~last.ok) =>
          /\ last.path \in DOMAIN ws
          /\ ws[last.path] = last.before
          /\ Sibling(last.path, IF last.op = "png" THEN "png" ELSE "jpeg") \notin DOMAIN ws

\* C8: after convert_image_to_jpg has run on a qualifying image that decodes,
\* with no I/O error, the source file is gone and a .jpeg file holds the
\* page, whatever its size.
C8_JpgReplacesSource ==
    (last.op = "jpg" /\ ~last.env) =>
       /\ last.path \notin DOMAIN ws
       /\ Sibling(last.path, "jpeg") \in DOMAIN ws
       /\ ws[Sibling(last.path, "jpeg")].page = last.before.page

\* C9: after convert_image_to_png has run on a qualifying image and returned
\* True, a new file is at the image's path with the extension replaced by
\* png, and the original file is at its path with its contents.
C9_PngAddsFileKeepsOriginal ==
    (last.op = "png" /\ last.ok) =>
       /\ Sibling(last.path, "png") \in DOMAIN ws
       /\ last.path \in DOMAIN ws
       /\ ws[last.path] = last.before

\* the i-th file parse_directory_for_files returns, as an entry of the tree
WalkedTreeEntry(i) ==
    LET keep(e) == e.name[1] # "." /\ (args.recursive \/ e.dir = <<>>)
    IN  SelectSeq(tree, keep)[i]

\* outputRoot/rel/base.targetExtension
MirroredOutput(i) ==
    LET e == WalkedTreeEntry(i)
    IN  PathJoin(PathJoin(args.output, e.dir),
                 SplitextRoot(e.name) \o <<".", args.convert_extension>>)

\* C10: in directory mode the output archive of inputRoot/rel/base.ext is
\* written at outputRoot/rel/base.targetExtension, however the input root is
\* typed.
C10_OutputMirrorsInput ==
    \A i \in DOMAIN arch :
       arch[i].built => arch[i].outPath = MirroredOutput(i)

\* C11: no input archive is modified, overwritten or deleted, and every
\* output archive is a file other than every input archive, also when the
\* output root is the input root and the target extension is the input's.
C11_InputsNeverModified ==
    /\ \A p \in DOMAIN inputs : inputs[p].from = 0
    /\ \A o \in outputs : o.path \notin DOMAIN inputs

(* ------------------- parse_directory_for_files alone ------------------- *)

InitWalk ==
    /\ args \in [input : InputForms, output : {OutputRoot}, recursive : BOOLEAN,
                 convert_extension : {"cbz"},
                 convert_image_file_type : {"original"}]
    /\ tree \in Trees
    /\ inputs = InputArchives(args.input, tree)
    /\ pc = "main"
    /\ files = <<>>
    /\ idx = 1
    /\ outDirs = {args.output}
    /\ outputs = {}
    /\ scratch = {}
    /\ arch = <<>>
    /\ ws = EmptyFS
    /\ wsDirs = {}
    /\ todo = <<>>
    /\ tasks = <<>>
    /\ waitIdx = 1
    /\ last = NoLast

NextWalk == Main

SpecWalk == InitWalk /\ [][NextWalk]_vars

\* a component of the path, other than "." itself, begins with a dot
HiddenComponentAt(p, k) ==
    /\ p[k] = "."
    /\ (k = 1 \/ p[k - 1] = "/")
    /\ k < Len(p)
    /\ p[k + 1] # "/"

Reachable(e) == args.recursive \/ e.dir = <<>>

\* C12 as stated: the walk returns no path that is, or lies in, an entry
\* whose name begins with a dot.
C12_NoHiddenPathReturned ==
    pc = "loop" =>
       \A j \in DOMAIN files : \A k \in DOMAIN files[j] :
          ~HiddenComponentAt(files[j], k)

\* C12 as amended: parse_directory_for_files returns, once each, exactly the
\* files of the tree whose own name does not begin with a dot and that it may
\* reach: the immediate children of the root when recursive is false, the
\* files at every depth, those of hidden directories included, when it is
\* true.
C12_WalkReturnsNonHiddenFiles ==
    pc = "loop" =>
       /\ \A j \in DOMAIN files :
             /\ Basename(files[j])[1] # "."
             /\ \E i \in DOMAIN tree :
                   Abspath(files[j]) = InputPath(args.input, tree[i])
             /\ ~args.recursive =>
                   DropLastComponent(Abspath(files[j])) = Abspath(args.input)
       /\ \A i \in DOMAIN tree :
             (tree[i].name[1] # "." /\ Reachable(tree[i])) =>
                \E j \in DOMAIN files :
                   Abspath(files[j]) = InputPath(args.input, tree[i])
       /\ Cardinality({files[j] : j \in DOMAIN files}) = Len(files)

\* a recursive walk of the whole pool: the two hidden files are left out, the
\* file of the hidden directory and the one two directories down are returned
C12_Witness ==
    /\ pc = "loop"
    /\ args.recursive
    /\ tree = TreePool
    /\ Len(files) = 4
    /\ \E j \in DOMAIN files : \E k \in DOMAIN files[j] :
          HiddenComponentAt(files[j], k)

\* C13: at the end of a directory-mode batch the pipeline has run for every
\* reachable file of the tree that is not hidden and has a comic extension,
\* however the input root is typed, and for no other file; and at no time
\* are two conversions under way.
C13_PipelineOncePerComicFile ==
    /\ pc = "done" =>
          \A i \in DOMAIN tree :
             ( /\ Reachable(tree[i])
               /\ tree[i].name[1] # "."
               /\ tree[i].name[Len(tree[i].name)] \in ComicSuffixes ) =>
                \E j \in DOMAIN files :
                   /\ Abspath(files[j]) = InputPath(args.input, tree[i])
                   /\ Returned(j)
    /\ \A j \in DOMAIN arch :
          arch[j].call # "none" =>
             /\ Basename(files[j])[1] # "."
             /\ files[j][Len(files[j])] \in ComicSuffixes
    /\ Cardinality({j \in DOMAIN arch : arch[j].call = "running"}) <= 1

====
